---- MODULE Spec2Model ----
(***************************************************************************)
(* The multi-step form wizard of src/src/components/MultiStepForm.tsx:    *)
(* the React state of the component (stepIndex, formData, errors,         *)
(* showUnsavedModal, pendingStepIndex), the two localStorage keys it      *)
(* reads and writes, and one action per event handler.  Every handler     *)
(* action includes the re-render and the write-through effects that React *)
(* runs after it.                                                          *)
(*                                                                         *)
(* Spec is the component as it is rendered: a handler runs only from a     *)
(* control the JSX renders and enables.  SpecCtl calls the handlers of the *)
(* navigation state machine directly, which reaches the branches of a      *)
(* handler that the rendered buttons never let it take.                    *)
(***************************************************************************)
EXTENDS Integers, Sequences, FiniteSets, TLC

VARIABLES
  phase,              \* "loaded" (mount effects ran, re-render pending), "ready", "exited"
  stepIndex,          \* useState<number>(0)
  formData,           \* useState<Record<string, any>>: a function on its keys
  errors,             \* useState<Record<string, string>>: a function on its keys
  showUnsavedModal,   \* useState(false)
  pendingStepIndex,   \* useState<number | null>(null)
  storedData,         \* localStorage entry of STORAGE_KEY
  storedStep,         \* localStorage entry of STEP_KEY
  last,               \* history: the handler that ran last and the state it ran from
  stepEdits           \* history: the questions edited since the step was entered or saved

vars == <<phase, stepIndex, formData, errors, showUnsavedModal,
          pendingStepIndex, storedData, storedStep, last, stepEdits>>

----------------------------------------------------------------------------
(* Values.  A JavaScript string is a sequence of one-character strings.    *)

\* number | null, as pendingStepIndex holds it: <<>> is null, <<n>> the number n
Null == <<>>
Num(n) == <<n>>

\* a localStorage entry: getItem gives null when the key is absent, else its text
AbsentData == [present |-> FALSE, text |-> {}]
AbsentStep == [present |-> FALSE, text |-> <<>>]
Stored(text) == [present |-> TRUE, text |-> text]

sEmpty == <<>>
s0to2 == <<"0", "-", "2">>
s6plus == <<"6", "+">>
sYes == <<"y", "e", "s">>
sNo == <<"n", "o">>
sX == <<"x">>
sUndefined == <<"u", "n", "d", "e", "f", "i", "n", "e", "d">>
sObjectFile == <<"[", "o", "b", "j", "e", "c", "t", " ", "F", "i", "l", "e", "]">>
sObjectObject == <<"[", "o", "b", "j", "e", "c", "t", " ", "O", "b", "j", "e", "c", "t", "]">>
sRequired == <<"T", "h", "i", "s", " ", "f", "i", "e", "l", "d", " ", "i", "s", " ",
               "r", "e", "q", "u", "i", "r", "e", "d", ".">>

Undefined == [t |-> "undefined", s |-> <<>>]
Str(s) == [t |-> "string", s |-> s]
FileVal == [t |-> "file", s |-> <<>>]      \* a File picked in a file input
ObjVal == [t |-> "object", s |-> <<>>]     \* the plain object {} that JSON.parse returns

WhiteSpace == {" ", "\r", "\n", "\t"}

RECURSIVE TrimStart(_)
TrimStart(s) ==
  IF s # <<>> /\ Head(s) \in WhiteSpace THEN TrimStart(Tail(s)) ELSE s

RECURSIVE TrimEnd(_)
TrimEnd(s) ==
  IF s # <<>> /\ s[Len(s)] \in WhiteSpace THEN TrimEnd(SubSeq(s, 1, Len(s) - 1)) ELSE s

\* String.prototype.trim
Trim(s) == TrimEnd(TrimStart(s))

\* String(v)
String(v) ==
  CASE v.t = "string" -> v.s
    [] v.t = "undefined" -> sUndefined
    [] v.t = "file" -> sObjectFile
    [] v.t = "object" -> sObjectObject

\* obj[key] of a record held as a function on its keys
Get(obj, key) == IF key \in DOMAIN obj THEN obj[key] ELSE Undefined

\* { ...obj, [key]: value }
Spread(obj, key, value) ==
  [k \in DOMAIN obj \cup {key} |-> IF k = key THEN value ELSE obj[k]]

EmptyRecord == [k \in {} |-> Undefined]

----------------------------------------------------------------------------
(* Number <-> string, as the step index is stored.                         *)

\* NaN, which no integer equals: a value outside every range the model uses
NaN == 0 - 1000000
DigitChars == <<"0", "1", "2", "3", "4", "5", "6", "7", "8", "9">>
Digits == {DigitChars[i] : i \in 1..Len(DigitChars)}
DigitValue(c) == CHOOSE d \in 0..9 : DigitChars[d + 1] = c

RECURSIVE NatToString(_)
NatToString(n) ==
  IF n < 10 THEN <<DigitChars[n + 1]>>
  ELSE NatToString(n \div 10) \o <<DigitChars[(n % 10) + 1]>>

\* Number.prototype.toString of an integer
NumberToString(n) == IF n < 0 THEN <<"-">> \o NatToString(-n) ELSE NatToString(n)

RECURSIVE ParseDigits(_, _)
ParseDigits(s, acc) ==
  IF s = <<>> \/ Head(s) \notin Digits THEN acc
  ELSE ParseDigits(Tail(s), acc * 10 + DigitValue(Head(s)))

\* parseInt(s, 10)
parseInt(s) ==
  LET t == TrimStart(s)
      neg == t # <<>> /\ Head(t) = "-"
      u == IF t # <<>> /\ Head(t) \in {"-", "+"} THEN Tail(t) ELSE t
  IN  IF u = <<>> \/ Head(u) \notin Digits THEN NaN
      ELSE IF neg THEN 0 - ParseDigits(u, 0) ELSE ParseDigits(u, 0)

----------------------------------------------------------------------------
(* JSON text of a flat record: the set of its members <<key, token>>.  A   *)
(* string member is kept as a string token, a File or object member is    *)
(* written as {} and a member whose value is undefined is left out.       *)

\* JSON.stringify that also leaves out the members holding an empty string
JSONstringifyNonEmpty(obj) ==
  {<<k, IF obj[k].t = "string" THEN <<"str", obj[k].s>> ELSE <<"obj">>>> :
     k \in {key \in DOMAIN obj : obj[key].t # "undefined" /\ obj[key] # Str(<<>>)}}

JSONstringify(obj) ==
  {<<k, IF obj[k].t = "string" THEN <<"str", obj[k].s>> ELSE <<"obj">>>> :
     k \in {key \in DOMAIN obj : obj[key].t # "undefined"}}

\* a text that is not JSON (cut short, say): JSON.parse throws a SyntaxError
NotJSON == {<<"", <<"err">>>>}
JSONthrows(text) == \E m \in text : m[2][1] = "err"

JSONparse(text) ==
  LET keys == {m[1] : m \in text}
      token(k) == (CHOOSE m \in text : m[1] = k)[2]
  IN  [k \in keys |-> IF token(k)[1] = "str" THEN Str(token(k)[2]) ELSE ObjVal]

----------------------------------------------------------------------------
(* The form definition (formConfig): three steps.                          *)

NoConditional == [present |-> FALSE, field |-> "", value |-> <<>>]
Conditional(f, v) == [present |-> TRUE, field |-> f, value |-> v]

qHours ==
  [id |-> "hours", type |-> "select", required |-> TRUE,
   options |-> <<s0to2, s6plus>>, conditional |-> NoConditional]
qDetail ==
  [id |-> "detail", type |-> "text", required |-> TRUE,
   options |-> <<>>, conditional |-> Conditional("hours", <<s6plus>>)]
qSmoker ==
  [id |-> "smoker", type |-> "radio", required |-> TRUE,
   options |-> <<sYes, sNo>>, conditional |-> NoConditional]
qNotes ==
  [id |-> "notes", type |-> "text", required |-> FALSE,
   options |-> <<>>, conditional |-> NoConditional]
qReport ==
  [id |-> "report", type |-> "file", required |-> TRUE,
   options |-> <<>>, conditional |-> NoConditional]

formConfig ==
  [steps |-> << [id |-> "activity", questions |-> <<qHours, qDetail>>],
                [id |-> "habits", questions |-> <<qSmoker, qNotes>>],
                [id |-> "documents", questions |-> <<qReport>>] >>]

initialData == EmptyRecord

Range(seq) == {seq[i] : i \in 1..Len(seq)}
StepIndices == 0..(Len(formConfig.steps) - 1)
QuestionsOf(i) == Range(formConfig.steps[i + 1].questions)

\* what a text or date input can report as e.target.value
TextInputs == {sEmpty, sX, <<" ", "x">>, <<"x", "\r">>, <<" ">>}

\* the values the input rendered for question q can pass to handleChange
InputsOf(q) ==
  CASE q.type \in {"text", "date"} -> {Str(s) : s \in TextInputs}
    [] q.type = "select" -> {Str(sEmpty)} \cup {Str(o) : o \in Range(q.options)}
    [] q.type = "radio" -> {Str(o) : o \in Range(q.options)}
    [] q.type = "file" -> {FileVal, Undefined}

----------------------------------------------------------------------------
(* Helpers of the component, as functions of the state they close over.    *)

\* normalizeValue without the trim: the value as the input passed it
normalizeValueUntrimmed(val) == val

normalizeValue(val) == IF val.t = "string" THEN Str(Trim(val.s)) ELSE val

isEmptyValue(val) ==
  IF val.t = "undefined" THEN TRUE
  ELSE IF val.t = "string" THEN Trim(val.s) = <<>>
  ELSE FALSE

\* isVisible without its conditional: every question counts as shown
isVisibleAlways(q, data) == TRUE

\* isVisible that compares the answer itself, with no String(): value.includes(fieldVal)
isVisibleUncoerced(q, data) ==
  IF ~q.conditional.present THEN TRUE
  ELSE Get(data, q.conditional.field) \in {Str(v) : v \in Range(q.conditional.value)}

isVisible(q, data) ==
  IF ~q.conditional.present THEN TRUE
  ELSE String(Get(data, q.conditional.field))
         \in {String(Str(v)) : v \in Range(q.conditional.value)}

\* const currentStep = formConfig.steps[stepIndex]; rendering throws when it is undefined
currentStepDefined == stepIndex \in StepIndices
currentQuestions == QuestionsOf(stepIndex)

\* newErrors that does not ask isVisible: a hidden required question is reported
newErrorsOfHidden(i, data) ==
  [id \in {q.id : q \in {x \in QuestionsOf(i) :
                           x.required /\ isEmptyValue(Get(data, x.id))}}
     |-> sRequired]

\* the newErrors record that validateStep builds for step i from data
newErrors(i, data) ==
  [id \in {q.id : q \in {x \in QuestionsOf(i) :
                           x.required /\ isVisible(x, data) /\ isEmptyValue(Get(data, x.id))}}
     |-> sRequired]

\* the boolean validateStep returns: Object.keys(newErrors).length === 0
validateStep(i, data) == Cardinality(DOMAIN newErrors(i, data)) = 0

visibleQuestions == {q \in currentQuestions : isVisible(q, formData)}
requiredVisibleQuestions == {q \in visibleQuestions : q.required}
answeredRequiredVisible ==
  {q \in requiredVisibleQuestions : ~isEmptyValue(Get(formData, q.id))}
isNextEnabled ==
  Cardinality(answeredRequiredVisible) = Cardinality(requiredVisibleQuestions)
\* isSaveEnabled over every question of the step, shown or not
isSaveEnabledAnyQuestion == \E q \in currentQuestions : ~isEmptyValue(Get(formData, q.id))

isSaveEnabled == \E q \in visibleQuestions : ~isEmptyValue(Get(formData, q.id))

----------------------------------------------------------------------------
(* The write-through effects, run after the render that follows a handler. *)

\* useEffect(..., [formData]): runs whenever formData is a new object
effectFormData(data) == Stored(JSONstringify(data))

\* useEffect(..., [stepIndex]): runs only when stepIndex has changed, and only
\* after a render that completed (rendering throws on an undefined currentStep)
effectStepIndex(index) ==
  IF index # stepIndex /\ index \in 0..(Len(formConfig.steps) - 1)
    THEN Stored(NumberToString(index))
    ELSE storedStep

\* what the history variable records of a handler call
Call(op, id, target) ==
  [op |-> op, step |-> stepIndex, valid |-> validateStep(stepIndex, formData),
   shown |-> {q.id : q \in visibleQuestions}, id |-> id, target |-> target,
   pending |-> pendingStepIndex, raw |-> Undefined]
NoCall(op) ==
  [op |-> op, step |-> 0, valid |-> FALSE, shown |-> {}, id |-> "", target |-> Null,
   pending |-> Null, raw |-> Undefined]

----------------------------------------------------------------------------
(* What the render offers: the form is operable while the component is     *)
(* rendered and the modal does not cover it; buttons exist and are enabled *)
(* as the JSX says.                                                         *)

Rendered == phase = "ready" /\ currentStepDefined
FormOperable == Rendered /\ ~showUnsavedModal
ModalOperable == Rendered /\ showUnsavedModal

\* the Back button shown on every step, the first included
BackRenderedAlways == TRUE

BackRendered == stepIndex > 0
NextRendered == stepIndex < Len(formConfig.steps) - 1
NextClickable == NextRendered /\ isNextEnabled
SubmitClickable == ~NextRendered /\ isNextEnabled
SaveExitClickable == isSaveEnabled

\* <form onSubmit={handleSubmit}>: besides the submit button, Enter in the only
\* text or date input of a form that shows no submit button submits the form
ImplicitSubmission ==
  /\ NextRendered
  /\ Cardinality({q \in visibleQuestions : q.type \in {"text", "date"}}) = 1

----------------------------------------------------------------------------
(* Session start: the component mounts with its initial state and the      *)
(* three effects run once, in order, over the state of the first render:   *)
(* the first reads the storage and queues the loaded state, the other two  *)
(* write the initial state.  In phase "loaded" formData and stepIndex hold *)
(* the queued state, which the next render shows.                          *)

Init ==
  /\ phase = "loaded"
  /\ stepIndex = 0
  /\ formData = initialData
  /\ errors = EmptyRecord
  /\ showUnsavedModal = FALSE
  /\ pendingStepIndex = Null
  /\ storedData = Stored(JSONstringify(initialData))
  /\ storedStep = Stored(NumberToString(0))
  /\ last = NoCall("mount")
  /\ stepEdits = {}

\* a reload, or a visit after the exit or a crash, with whatever the storage
\* holds.  getItem's text counts when it is truthy (not null, not empty).  When
\* JSON.parse throws, the load effect ends there and the component is
\* unmounted (phase "crashed"); whether the two write effects of the same
\* commit still run depends on the React version, so both outcomes are kept.
Mount ==
  /\ phase \in {"ready", "exited", "crashed"}
  /\ errors' = EmptyRecord
  /\ showUnsavedModal' = FALSE
  /\ pendingStepIndex' = Null
  /\ last' = NoCall("mount")
  /\ stepEdits' = {}
  /\ IF storedData.present /\ JSONthrows(storedData.text)
       THEN /\ phase' = "crashed"
            /\ formData' = initialData
            /\ stepIndex' = 0
            /\ \E written \in BOOLEAN :
                 IF written
                   THEN /\ storedData' = Stored(JSONstringify(initialData))
                        /\ storedStep' = Stored(NumberToString(0))
                   ELSE UNCHANGED <<storedData, storedStep>>
       ELSE /\ phase' = "loaded"
            /\ formData' = IF storedData.present
                              THEN JSONparse(storedData.text) ELSE initialData
            /\ stepIndex' = IF storedStep.present /\ storedStep.text # <<>>
                               THEN parseInt(storedStep.text) ELSE 0
            /\ storedData' = Stored(JSONstringify(initialData))
            /\ storedStep' = Stored(NumberToString(0))

\* the render with the loaded state, and the effects of what changed
\* (rendering throws on an undefined currentStep: no effect runs then)
RenderLoaded ==
  /\ phase = "loaded"
  /\ IF currentStepDefined
       THEN /\ phase' = "ready"
            /\ storedData' = Stored(JSONstringify(formData))
            /\ storedStep' = Stored(NumberToString(stepIndex))
       ELSE /\ phase' = "crashed"
            /\ UNCHANGED <<storedData, storedStep>>
  /\ last' = NoCall("load")
  /\ UNCHANGED <<stepIndex, formData, errors, showUnsavedModal, pendingStepIndex, stepEdits>>

----------------------------------------------------------------------------
(* The event handlers.                                                     *)

\* handleChange that starts from an empty errors object: setErrors({ [id]: "" })
handleChangeClearsErrors(id, value) ==
  /\ formData' = Spread(formData, id, normalizeValue(value))
  /\ errors' = Spread(EmptyRecord, id, sEmpty)
  /\ storedData' = effectFormData(formData')
  /\ last' = [Call("handleChange", id, Null) EXCEPT !.raw = value]
  /\ stepEdits' = stepEdits \cup {id}
  /\ UNCHANGED <<phase, stepIndex, showUnsavedModal, pendingStepIndex, storedStep>>

handleChange(id, value) ==
  /\ formData' = Spread(formData, id, normalizeValue(value))
  /\ errors' = Spread(errors, id, sEmpty)
  /\ storedData' = effectFormData(formData')
  /\ last' = [Call("handleChange", id, Null) EXCEPT !.raw = value]
  /\ stepEdits' = stepEdits \cup {id}
  /\ UNCHANGED <<phase, stepIndex, showUnsavedModal, pendingStepIndex, storedStep>>

nextStep ==
  /\ errors' = newErrors(stepIndex, formData)
  /\ stepIndex' = IF validateStep(stepIndex, formData) THEN stepIndex + 1 ELSE stepIndex
  /\ storedStep' = effectStepIndex(stepIndex')
  /\ last' = Call("nextStep", "", Null)
  /\ stepEdits' = IF stepIndex' # stepIndex THEN {} ELSE stepEdits
  /\ UNCHANGED <<phase, formData, showUnsavedModal, pendingStepIndex, storedData>>

\* prevStep that goes back only from a step that passes validateStep
prevStepValidated ==
  /\ errors' = newErrors(stepIndex, formData)
  /\ stepIndex' = IF validateStep(stepIndex, formData) THEN stepIndex - 1 ELSE stepIndex
  /\ storedStep' = effectStepIndex(stepIndex')
  /\ last' = Call("prevStep", "", Null)
  /\ stepEdits' = IF stepIndex' # stepIndex THEN {} ELSE stepEdits
  /\ UNCHANGED <<phase, formData, showUnsavedModal, pendingStepIndex, storedData>>

prevStep ==
  /\ stepIndex' = stepIndex - 1
  /\ storedStep' = effectStepIndex(stepIndex')
  /\ last' = Call("prevStep", "", Null)
  /\ stepEdits' = IF stepIndex' # stepIndex THEN {} ELSE stepEdits
  /\ UNCHANGED <<phase, formData, errors, showUnsavedModal, pendingStepIndex, storedData>>

\* handleSubmit that removes the draft without looking at validateStep's result
handleSubmitUnchecked ==
  /\ errors' = newErrors(stepIndex, formData)
  /\ storedData' = AbsentData /\ storedStep' = AbsentStep
  /\ last' = Call("handleSubmit", "", Null)
  /\ UNCHANGED stepEdits
  /\ UNCHANGED <<phase, stepIndex, formData, showUnsavedModal, pendingStepIndex>>

handleSubmit ==
  /\ errors' = newErrors(stepIndex, formData)
  /\ IF validateStep(stepIndex, formData)
       THEN storedData' = AbsentData /\ storedStep' = AbsentStep
       ELSE UNCHANGED <<storedData, storedStep>>
  /\ last' = Call("handleSubmit", "", Null)
  /\ UNCHANGED stepEdits
  /\ UNCHANGED <<phase, stepIndex, formData, showUnsavedModal, pendingStepIndex>>

\* handleSaveExit that leaves at once, whatever is answered
handleSaveExitAlways ==
  /\ phase' = "exited"
  /\ last' = Call("handleSaveExit", "", Null)
  /\ UNCHANGED stepEdits
  /\ UNCHANGED <<stepIndex, formData, errors, showUnsavedModal, pendingStepIndex,
                 storedData, storedStep>>

handleSaveExit ==
  /\ IF ~(\A q \in visibleQuestions : ~isEmptyValue(Get(formData, q.id)))
       THEN /\ showUnsavedModal' = TRUE
            /\ pendingStepIndex' = Null
            /\ phase' = phase
       ELSE /\ phase' = "exited"
            /\ UNCHANGED <<showUnsavedModal, pendingStepIndex>>
  /\ last' = Call("handleSaveExit", "", Null)
  /\ UNCHANGED stepEdits
  /\ UNCHANGED <<stepIndex, formData, errors, storedData, storedStep>>

\* items[index].onClick, the handler each entry of the navigation items carries
itemOnClick(index) ==
  /\ errors' = newErrors(stepIndex, formData)
  /\ IF ~validateStep(stepIndex, formData)
       THEN /\ pendingStepIndex' = Num(index)
            /\ showUnsavedModal' = TRUE
            /\ stepIndex' = stepIndex
       ELSE /\ stepIndex' = index
            /\ UNCHANGED <<pendingStepIndex, showUnsavedModal>>
  /\ storedStep' = effectStepIndex(stepIndex')
  /\ last' = Call("itemOnClick", "", Num(index))
  /\ stepEdits' = IF stepIndex' # stepIndex THEN {} ELSE stepEdits
  /\ UNCHANGED <<phase, formData, storedData>>

\* onClick={() => {}} of the ClayVerticalNav.Item rendered for entry index
navItemOnClick(index) ==
  /\ last' = Call("navItemOnClick", "", Num(index))
  /\ UNCHANGED stepEdits
  /\ UNCHANGED <<phase, stepIndex, formData, errors, showUnsavedModal,
                 pendingStepIndex, storedData, storedStep>>

\* a Close that also forgets the pending target
closeModalReset ==
  /\ showUnsavedModal' = FALSE
  /\ pendingStepIndex' = Null
  /\ last' = Call("closeModal", "", pendingStepIndex)
  /\ UNCHANGED stepEdits
  /\ UNCHANGED <<phase, stepIndex, formData, errors, storedData, storedStep>>

\* the Close button of the modal, and onClose of useModal
closeModal ==
  /\ showUnsavedModal' = FALSE
  /\ last' = Call("closeModal", "", pendingStepIndex)
  /\ UNCHANGED stepEdits
  /\ UNCHANGED <<phase, stepIndex, formData, errors, pendingStepIndex, storedData, storedStep>>

\* the tail both footer buttons share: close, then go to the target or leave
proceed ==
  /\ showUnsavedModal' = FALSE
  /\ IF pendingStepIndex # Null
       THEN stepIndex' = pendingStepIndex[1] /\ phase' = phase
       ELSE stepIndex' = stepIndex /\ phase' = "exited"
  /\ storedStep' = effectStepIndex(stepIndex')
  /\ UNCHANGED <<formData, errors, pendingStepIndex>>

proceedWithoutSaving ==
  /\ proceed
  /\ last' = Call("proceedWithoutSaving", "", pendingStepIndex)
  /\ stepEdits' = IF stepIndex' # stepIndex THEN {} ELSE stepEdits
  /\ UNCHANGED storedData

\* Save and proceed without the setItem of the answers
saveAndProceedUnsaved ==
  /\ proceed
  /\ last' = Call("saveAndProceed", "", pendingStepIndex)
  /\ stepEdits' = {}
  /\ UNCHANGED storedData

saveAndProceed ==
  /\ storedData' = Stored(JSONstringify(formData))
  /\ proceed
  /\ last' = Call("saveAndProceed", "", pendingStepIndex)
  /\ stepEdits' = {}

----------------------------------------------------------------------------
(* The component as the user drives it.                                    *)

Edit ==
  /\ FormOperable
  /\ \E q \in visibleQuestions : \E value \in InputsOf(q) : handleChange(q.id, value)

ClickNext == FormOperable /\ NextClickable /\ nextStep
ClickBack == FormOperable /\ BackRendered /\ prevStep
Submit == FormOperable /\ (SubmitClickable \/ ImplicitSubmission) /\ handleSubmit
ClickSaveExit == FormOperable /\ SaveExitClickable /\ handleSaveExit
ClickNavItem == FormOperable /\ \E index \in StepIndices : navItemOnClick(index)
ClickClose == ModalOperable /\ closeModal
ClickProceedWithoutSaving == ModalOperable /\ proceedWithoutSaving
ClickSaveAndProceed == ModalOperable /\ saveAndProceed

Next ==
  \/ Mount
  \/ RenderLoaded
  \/ Edit
  \/ ClickNext
  \/ ClickBack
  \/ Submit
  \/ ClickSaveExit
  \/ ClickNavItem
  \/ ClickClose
  \/ ClickProceedWithoutSaving
  \/ ClickSaveAndProceed

Spec == Init /\ [][Next]_vars

----------------------------------------------------------------------------
(* The controller by itself: the operations of the navigation state        *)
(* machine called directly, whatever buttons the render offers.  From      *)
(* Active(i) (modal closed) any of the five requests, from                 *)
(* ConfirmPending (modal open) the three modal actions.                    *)

requestNext == FormOperable /\ nextStep
requestPrev == FormOperable /\ prevStep
requestJump == FormOperable /\ \E index \in StepIndices : itemOnClick(index)
requestSaveAndExit == FormOperable /\ handleSaveExit
submit == FormOperable /\ handleSubmit

NextCtl ==
  \/ Mount
  \/ RenderLoaded
  \/ Edit
  \/ requestNext
  \/ requestPrev
  \/ requestJump
  \/ requestSaveAndExit
  \/ submit
  \/ ClickClose
  \/ ClickProceedWithoutSaving
  \/ ClickSaveAndProceed

SpecCtl == Init /\ [][NextCtl]_vars

----------------------------------------------------------------------------
(* The storage belongs to the origin, not to the component: between two    *)
(* sessions another script, or an earlier version of the form with more    *)
(* steps, may have left there a text the component would not have written. *)

\* step texts the component never writes for this formConfig: not a number,
\* the index past the last step, a negative index, the empty text
ForeignSteps ==
  {<<"x">>, NumberToString(Len(formConfig.steps)), NumberToString(0 - 1), <<>>}

ForeignWrite ==
  /\ phase = "exited"
  /\ \/ storedData' = Stored(NotJSON) /\ UNCHANGED storedStep
     \/ \E text \in ForeignSteps : storedStep' = Stored(text) /\ UNCHANGED storedData
  /\ last' = NoCall("storage")
  /\ UNCHANGED <<phase, stepIndex, formData, errors, showUnsavedModal,
                 pendingStepIndex, stepEdits>>

NextStorage ==
  \/ Mount
  \/ RenderLoaded
  \/ Edit
  \/ ClickNext
  \/ ClickBack
  \/ Submit
  \/ ClickSaveExit
  \/ ClickNavItem
  \/ ClickClose
  \/ ClickProceedWithoutSaving
  \/ ClickSaveAndProceed
  \/ ForeignWrite

SpecStorage == Init /\ [][NextStorage]_vars

----------------------------------------------------------------------------
(* isVisible by itself, over conditionals and controller answers the form  *)
(* definition above does not have: value lists that differ in case only or *)
(* that hold the text "undefined", and a controller that is unanswered,    *)
(* cleared, a string or a file.  formData holds the answers and last the   *)
(* question and, once isVisible was called, its result.                    *)

sYesCapital == <<"Y", "e", "s">>
ProbeTexts == {sYes, sYesCapital, sNo, sUndefined}
ProbeValues ==
  {<<v>> : v \in ProbeTexts} \cup
  {<<p[1], p[2]>> : p \in {x \in ProbeTexts \X ProbeTexts : x[1] # x[2]}}
ProbeQuestions ==
  {[id |-> "probe", type |-> "text", required |-> TRUE, options |-> <<>>,
    conditional |-> c] :
     c \in {NoConditional} \cup {Conditional("smoker", value) : value \in ProbeValues}}
ProbeAnswers ==
  {EmptyRecord} \cup
  {Spread(EmptyRecord, "smoker", v) :
     v \in {Undefined, FileVal, ObjVal} \cup {Str(t) : t \in ProbeTexts \cup {sEmpty}}}

InitVisible ==
  /\ phase = "loaded"
  /\ stepIndex = 0
  /\ formData \in ProbeAnswers
  /\ errors = EmptyRecord
  /\ showUnsavedModal = FALSE
  /\ pendingStepIndex = Null
  /\ storedData = Stored(JSONstringify(initialData))
  /\ storedStep = Stored(NumberToString(0))
  /\ \E q \in ProbeQuestions : last = [op |-> "none", q |-> q, visible |-> FALSE]
  /\ stepEdits = {}

CallIsVisible ==
  /\ last.op = "none"
  /\ last' = [op |-> "isVisible", q |-> last.q, visible |-> isVisible(last.q, formData)]
  /\ UNCHANGED <<phase, stepIndex, formData, errors, showUnsavedModal,
                 pendingStepIndex, storedData, storedStep, stepEdits>>

NextVisible == CallIsVisible

SpecVisible == InitVisible /\ [][NextVisible]_vars

----------------------------------------------------------------------------
(* The vocabulary of the properties, stated from the data model and not    *)
(* through the component's helpers.                                        *)

\* a non-empty answer: a file or object, or a string with a non-blank character
Present(v) ==
  \/ v.t \in {"file", "object"}
  \/ v.t = "string" /\ \E i \in 1..Len(v.s) : v.s[i] \notin WhiteSpace

Answer(data, id) == IF id \in DOMAIN data THEN data[id] ELSE Undefined

\* question q is shown under the answers data
Shown(q, data) ==
  \/ ~q.conditional.present
  \/ \E i \in 1..Len(q.conditional.value) :
       Answer(data, q.conditional.field) = Str(q.conditional.value[i])

\* the ids of the required, shown and unanswered questions of step i
Missing(i, data) ==
  {q.id : q \in {x \in QuestionsOf(i) :
                   x.required /\ Shown(x, data) /\ ~Present(Answer(data, x.id))}}

\* the ids that carry an error message
ErrorIds(e) == {id \in DOMAIN e : e[id] # <<>>}

IdsOf(i) == {q.id : q \in QuestionsOf(i)}

----------------------------------------------------------------------------
\* C1: in every reachable state stepIndex is an integer with
\* 0 <= stepIndex < steps.length.
C1_StepIndexInRange ==
  /\ stepIndex \in Int
  /\ 0 <= stepIndex
  /\ stepIndex < Len(formConfig.steps)

\* a session that started from the persisted index of the last step
C1_Witness ==
  /\ phase = "ready"
  /\ last.op = "load"
  /\ stepIndex = Len(formConfig.steps) - 1
  /\ storedStep = Stored(NumberToString(stepIndex))

\* C2: requestNext from Active(i), i not the last step, validates step i: with
\* a required, shown and unanswered question stepIndex stays i and errors holds
\* the required-field message for exactly those questions; with none the state
\* becomes Active(i+1).
C2_RequestNext ==
  [][(last'.op = "nextStep" /\ stepIndex < Len(formConfig.steps) - 1) =>
       IF Missing(stepIndex, formData) # {}
         THEN /\ stepIndex' = stepIndex
              /\ DOMAIN errors' = Missing(stepIndex, formData)
              /\ \A id \in DOMAIN errors' : errors'[id] = sRequired
         ELSE /\ stepIndex' = stepIndex + 1
              /\ showUnsavedModal' = FALSE]_vars

\* requestNext was refused on a step with a missing answer
C2_Witness ==
  /\ last.op = "nextStep"
  /\ ~last.valid
  /\ stepIndex = last.step
  /\ ErrorIds(errors) = Missing(stepIndex, formData)
  /\ ErrorIds(errors) # {}

\* C3: nextEnabled is true exactly when every required and shown question of
\* the current step has a non-empty answer; so after an edit of a controller
\* field that hides the only required question still unanswered, nextEnabled
\* is true at once.
C3_NextEnabled ==
  /\ [](Rendered => (isNextEnabled <=> Missing(stepIndex, formData) = {}))
  /\ [][(/\ last'.op = "handleChange"
         /\ \E q \in QuestionsOf(stepIndex) :
              /\ q.required /\ q.conditional.present
              /\ q.conditional.field = last'.id
              /\ Shown(q, formData) /\ ~Shown(q, formData')
              /\ \A x \in QuestionsOf(stepIndex) :
                   (x.required /\ ~Present(Answer(formData', x.id))) => x = q)
          => isNextEnabled']_vars

\* the edit of hours hid detail, the only blocker, and Next is enabled
C3_Witness ==
  /\ last.op = "handleChange"
  /\ last.id = "hours"
  /\ "detail" \in last.shown
  /\ ~last.valid
  /\ ~Shown(qDetail, formData)
  /\ ~Present(Answer(formData, "detail"))
  /\ stepIndex = 0
  /\ isNextEnabled

\* C4: requestJump(target) from Active(i) via the navigation menu validates
\* step i: if it is valid the state becomes Active(target) and the
\* confirmation is not opened; if not, stepIndex stays i, the confirmation
\* opens and pendingStepIndex = target.
C4_RequestJump ==
  [][last'.op = "navItemOnClick" =>
       IF Missing(stepIndex, formData) = {}
         THEN /\ stepIndex' = last'.target[1]
              /\ showUnsavedModal' = FALSE
         ELSE /\ stepIndex' = stepIndex
              /\ showUnsavedModal' = TRUE
              /\ pendingStepIndex' = last'.target]_vars

\* C5: submit from Active(last) with every required shown question answered
\* removes both persisted keys and leaves the wizard in Active(0) with an
\* empty Answer Store.
C5_SubmitResets ==
  [][(/\ last'.op = "handleSubmit"
      /\ stepIndex = Len(formConfig.steps) - 1
      /\ Missing(stepIndex, formData) = {})
       => /\ ~storedData'.present
          /\ ~storedStep'.present
          /\ stepIndex' = 0
          /\ formData' = EmptyRecord
          /\ showUnsavedModal' = FALSE]_vars

\* C6: the persisted keys are removed only by a submit that passes validation
\* while stepIndex is the last step.
C6_OnlyFinalSubmitClears ==
  [][(\/ storedData.present /\ ~storedData'.present
      \/ storedStep.present /\ ~storedStep'.present)
       => /\ last'.op = "handleSubmit"
          /\ stepIndex = Len(formConfig.steps) - 1
          /\ Missing(stepIndex, formData) = {}]_vars

\* C7: a submit on a step with a required, shown and unanswered question is
\* rejected: errors is populated, stepIndex and the answers are unchanged and
\* neither persisted key is cleared or changed.
C7_FailedSubmit ==
  [][(last'.op = "handleSubmit" /\ Missing(stepIndex, formData) # {})
       => /\ ErrorIds(errors') = Missing(stepIndex, formData)
          /\ stepIndex' = stepIndex
          /\ formData' = formData
          /\ storedData' = storedData
          /\ storedStep' = storedStep]_vars

\* a submit was rejected and the draft is still stored
C7_Witness ==
  /\ last.op = "handleSubmit"
  /\ ~last.valid
  /\ ErrorIds(errors) # {}
  /\ storedData = Stored(JSONstringify(formData))
  /\ storedStep = Stored(NumberToString(stepIndex))

\* C8: confirmProceedWithoutSaving discards the unsaved edits of step i: after
\* it no answer edited on the step since it was entered is in the persisted
\* answers.
C8_ProceedDiscardsEdits ==
  [][last'.op = "proceedWithoutSaving" =>
       \A id \in stepEdits :
         Present(Answer(formData, id)) =>
           \/ ~storedData'.present
           \/ Answer(JSONparse(storedData'.text), id) # Answer(formData, id)]_vars

\* C9: errors holds messages only for questions of the active step.
C9_ErrorsOfCurrentStepOnly ==
  Rendered => ErrorIds(errors) \subseteq IdsOf(stepIndex)

\* C10: a navigation never ends with stepIndex changed and an error message
\* left in errors, nor refused with no error message.
C10_CommitOrNoOp ==
  [][last'.op \in {"nextStep", "prevStep", "proceedWithoutSaving", "saveAndProceed"} =>
       /\ stepIndex' # stepIndex => ErrorIds(errors') = {}
       /\ (last'.op = "nextStep" /\ stepIndex' = stepIndex) => ErrorIds(errors') # {}]_vars

\* C11: requestSaveAndExit from Active(i): when every shown question of step
\* i, required or not, has a non-empty answer the wizard leaves and the
\* confirmation stays closed; otherwise the confirmation opens with
\* pendingStepIndex null, whatever target was pending before, and stepIndex
\* stays i.
C11_RequestSaveAndExit ==
  [][last'.op = "handleSaveExit" =>
       IF \A q \in QuestionsOf(stepIndex) :
            Shown(q, formData) => Present(Answer(formData, q.id))
         THEN /\ phase' = "exited"
              /\ showUnsavedModal' = FALSE
              /\ stepIndex' = stepIndex
         ELSE /\ phase' = "ready"
              /\ showUnsavedModal' = TRUE
              /\ pendingStepIndex' = Null
              /\ stepIndex' = stepIndex]_vars

\* the confirmation was opened by Save & Exit over an earlier pending target
C11_Witness ==
  /\ last.op = "handleSaveExit"
  /\ last.pending # Null
  /\ phase = "ready"
  /\ showUnsavedModal
  /\ pendingStepIndex = Null
  /\ stepIndex = last.step

\* C12: from ConfirmPending(i, target), confirmSaveAndProceed writes the
\* current answers to the storage and, like confirmProceedWithoutSaving, closes
\* the confirmation and goes to Active(target) when target is not null, or
\* leaves the wizard when it is null.
C12_SaveAndProceed ==
  [][last'.op = "saveAndProceed" =>
       /\ storedData' = Stored(JSONstringify(formData))
       /\ formData' = formData
       /\ showUnsavedModal' = FALSE
       /\ IF pendingStepIndex # Null
            THEN stepIndex' = pendingStepIndex[1] /\ phase' = "ready"
            ELSE stepIndex' = stepIndex /\ phase' = "exited"]_vars

\* saved and went to the pending target, another step, past an invalid step
C12_Witness ==
  /\ last.op = "saveAndProceed"
  /\ last.target # Null
  /\ ~last.valid
  /\ phase = "ready"
  /\ ~showUnsavedModal
  /\ stepIndex = last.target[1]
  /\ stepIndex # last.step
  /\ storedData = Stored(JSONstringify(formData))

\* C13: dismissConfirmation from ConfirmPending(i, target) returns to
\* Active(i): the confirmation closes, stepIndex and the answers are unchanged
\* and pendingStepIndex is null afterwards; so whenever the confirmation is
\* closed no pending target is retained.
C13_DismissDiscardsTarget ==
  /\ [][last'.op = "closeModal" =>
          /\ showUnsavedModal' = FALSE
          /\ stepIndex' = stepIndex
          /\ formData' = formData
          /\ pendingStepIndex' = Null]_vars
  /\ []((Rendered /\ ~showUnsavedModal) => pendingStepIndex = Null)

\* C13, amended: dismissConfirmation closes the confirmation and changes
\* nothing else: stepIndex, the answers and pendingStepIndex keep their values.
\* The target it leaves behind is never acted upon: whatever opens the
\* confirmation next sets pendingStepIndex anew, to the target of the jump or
\* to null for Save & Exit.
C13_DismissKeepsTarget ==
  /\ [][last'.op = "closeModal" =>
          /\ showUnsavedModal' = FALSE
          /\ phase' = phase
          /\ stepIndex' = stepIndex
          /\ formData' = formData
          /\ pendingStepIndex' = pendingStepIndex]_vars
  /\ [][(~showUnsavedModal /\ showUnsavedModal') =>
          \/ last'.op = "itemOnClick" /\ pendingStepIndex' = last'.target
          \/ last'.op = "handleSaveExit" /\ pendingStepIndex' = Null]_vars

\* the confirmation of a jump was dismissed and its target is still pending
C13_Witness ==
  /\ last.op = "closeModal"
  /\ last.target # Null
  /\ phase = "ready"
  /\ ~showUnsavedModal
  /\ stepIndex = last.step
  /\ pendingStepIndex = last.target

\* C14: requestPrev from Active(i), i > 0, goes to Active(i-1) whatever the
\* answers are: it does not validate, leaves errors as they are, opens no
\* confirmation and sets no pending target.
C14_RequestPrev ==
  [][(last'.op = "prevStep" /\ stepIndex > 0) =>
       /\ stepIndex' = stepIndex - 1
       /\ phase' = "ready"
       /\ errors' = errors
       /\ formData' = formData
       /\ showUnsavedModal' = FALSE
       /\ pendingStepIndex' = pendingStepIndex]_vars

\* went back from a step with a required, shown question unanswered
C14_Witness ==
  /\ last.op = "prevStep"
  /\ last.step > 0
  /\ Missing(last.step, formData) # {}
  /\ phase = "ready"
  /\ stepIndex = last.step - 1
  /\ ErrorIds(errors) = {}
  /\ ~showUnsavedModal

\* C15: the controller treats an out-of-range transition as a no-op:
\* requestPrev at stepIndex 0 and requestNext on a valid last step leave
\* stepIndex unchanged and raise no error (the component is still rendered).
C15_OutOfRangeNoOp ==
  [][(\/ last'.op = "prevStep" /\ stepIndex = 0
      \/ /\ last'.op = "nextStep"
         /\ stepIndex = Len(formConfig.steps) - 1
         /\ Missing(stepIndex, formData) = {})
       => /\ stepIndex' = stepIndex
          /\ Rendered']_vars

\* C16: a session that starts with a draft in the storage ends its startup
\* with the answers and stepIndex of the draft, and at no point of the startup
\* is the stored draft replaced by the seed or by step 0; with no draft the
\* wizard starts from the seed at step 0.
C16_StartupKeepsDraft ==
  /\ [][last'.op = "mount" =>
          /\ IF storedData.present
               THEN formData' = JSONparse(storedData.text) /\ storedData' = storedData
               ELSE formData' = initialData
          /\ IF storedStep.present
               THEN stepIndex' = parseInt(storedStep.text) /\ storedStep' = storedStep
               ELSE stepIndex' = 0]_vars
  /\ [][last'.op = "load" =>
          /\ formData' = formData
          /\ stepIndex' = stepIndex
          /\ storedData.present => storedData' = storedData
          /\ storedStep.present => storedStep' = storedStep]_vars

\* C17: after every edit or navigation that changed the answers or stepIndex
\* the persisted answers are the serialization of the answers in memory and
\* the persisted step index is stepIndex.
C17_WriteThrough ==
  [][(/\ last'.op \in {"handleChange", "nextStep", "prevStep", "itemOnClick",
                       "proceedWithoutSaving", "saveAndProceed"}
      /\ formData' # formData \/ stepIndex' # stepIndex
      /\ Rendered')
       => /\ storedData' = Stored(JSONstringify(formData'))
          /\ storedStep' = Stored(NumberToString(stepIndex'))]_vars

\* C18: a session that starts with malformed persisted data, answers that do
\* not deserialize or a step index that is not a number or not an index of a
\* step, behaves as with no draft: it starts from the initial data, at step 0,
\* and does not crash.
C18_MalformedAsNoDraft ==
  /\ [][last'.op = "mount" =>
          /\ (storedData.present /\ JSONthrows(storedData.text))
               => formData' = initialData /\ phase' = "loaded"
          /\ (storedStep.present /\ parseInt(storedStep.text) \notin StepIndices)
               => stepIndex' = 0 /\ phase' = "loaded"]_vars
  /\ [](phase # "crashed")

\* C19: isVisible is true for a question with no conditional; for one with a
\* conditional it is true exactly when the string form of the controller's
\* answer is one of the value texts, compared with case ("yes" matches "yes",
\* "Yes" does not), and an unanswered controller hides the question.
C19_IsVisible ==
  last.op = "isVisible" =>
    LET q == last.q
        a == Answer(formData, q.conditional.field)
    IN  /\ ~q.conditional.present => last.visible
        /\ (q.conditional.present /\ a.t # "undefined") =>
             (last.visible <=>
                \E i \in 1..Len(q.conditional.value) : String(a) = q.conditional.value[i])
        /\ (q.conditional.present /\ a.t = "undefined") => ~last.visible

\* C19, amended: isVisible is true for a question with no conditional; for one
\* with a conditional it is true exactly when the string form of the
\* controller's answer is one of the value texts, compared with case.  The
\* string form of a missing answer is "undefined": an unanswered controller
\* hides the question unless "undefined" is one of the value texts.
C19_IsVisibleCoerced ==
  last.op = "isVisible" =>
    LET q == last.q
        a == Answer(formData, q.conditional.field)
        member(text) == \E i \in 1..Len(q.conditional.value) : text = q.conditional.value[i]
    IN  /\ ~q.conditional.present => last.visible
        /\ (q.conditional.present /\ a.t # "undefined") => (last.visible <=> member(String(a)))
        /\ (q.conditional.present /\ a.t = "undefined") => (last.visible <=> member(sUndefined))
        /\ (a = Str(sYesCapital) /\ q.conditional.value = <<sYes>>) => ~last.visible

\* the controller is unanswered and the question is shown
C19_Witness ==
  /\ last.op = "isVisible"
  /\ last.q.conditional.present
  /\ last.q.conditional.field \notin DOMAIN formData
  /\ last.visible

\* C20: in every state Save & Exit is enabled exactly when a question of the
\* current step that is shown under the current answers has a non-empty
\* answer; the answers of hidden questions and of other steps do not count.
C20_SaveEnabled ==
  Rendered =>
    (isSaveEnabled <=>
       \E q \in QuestionsOf(stepIndex) :
         Shown(q, formData) /\ Present(Answer(formData, q.id)))

\* a hidden question of the step and a question of another step are answered,
\* and Save & Exit is disabled
C20_Witness ==
  /\ Rendered
  /\ stepIndex = 0
  /\ ~Shown(qDetail, formData)
  /\ Present(Answer(formData, "detail"))
  /\ Present(Answer(formData, "smoker"))
  /\ ~isSaveEnabled

\* a text with no whitespace, carriage return included, at either end
Trimmed(s) == s = <<>> \/ (s[1] \notin WhiteSpace /\ s[Len(s)] \notin WhiteSpace)

\* C21: every string held in the answers is its own trimmed form, after any
\* sequence of edits and session starts; an edit stores a value that is not a
\* string as it was passed.
C21_AnswersTrimmed ==
  /\ [](\A id \in DOMAIN formData :
          formData[id].t = "string" => Trimmed(formData[id].s))
  /\ [][(last'.op = "handleChange" /\ last'.raw.t # "string") =>
          formData'[last'.id] = last'.raw]_vars

\* a text typed with a trailing carriage return is held without it
C21_Witness ==
  /\ last.op = "handleChange"
  /\ last.raw = Str(<<"x", "\r">>)
  /\ formData[last.id] = Str(sX)
  /\ storedData = Stored(JSONstringify(formData))

\* the answers a and b cannot be told apart: every question has the same
\* value and the same answered status, is shown under both or under neither,
\* and every step validates to the same errors
ObservablyEqual(a, b) ==
  /\ \A i \in StepIndices : \A q \in QuestionsOf(i) :
       /\ Answer(a, q.id) = Answer(b, q.id)
       /\ Present(Answer(a, q.id)) <=> Present(Answer(b, q.id))
       /\ isVisible(q, a) <=> isVisible(q, b)
  /\ \A i \in StepIndices : newErrors(i, a) = newErrors(i, b)

StringsOrAbsent(data) == \A id \in DOMAIN data : data[id].t \in {"string", "undefined"}

\* C22: for answers whose values are strings or absent, what a reload reads
\* back from the saved answers is observably equal to them: same values, same
\* answered status, same visibility of dependent questions, same validation.
C22_RoundTrip ==
  /\ [](StringsOrAbsent(formData) =>
          ObservablyEqual(JSONparse(JSONstringify(formData)), formData))
  /\ [][(/\ last'.op = "mount"
          /\ StringsOrAbsent(formData)
          /\ storedData = Stored(JSONstringify(formData)))
          => ObservablyEqual(formData', formData)]_vars

\* a reload read back an empty answer, the answer that shows detail and
\* the answer of detail
C22_Witness ==
  /\ last.op = "mount"
  /\ phase = "loaded"
  /\ StringsOrAbsent(formData)
  /\ Answer(formData, "hours") = Str(s6plus)
  /\ Answer(formData, "detail") = Str(sX)
  /\ Answer(formData, "notes") = Str(sEmpty)
  /\ isVisible(qDetail, formData)

\* C23: whenever a submit succeeds (the draft is removed), every required and
\* shown question of every step has a non-empty answer, not only those of
\* the step the submit was made on.
C23_SubmitMeansComplete ==
  [][(last'.op = "handleSubmit" /\ last'.valid /\ ~storedData'.present) =>
       \A i \in StepIndices : Missing(i, formData') = {}]_vars

\* C24: an edit of question id with a raw value changes only the answer of id,
\* to the normalized value, and clears only the error of id: every other
\* answer and error entry, stepIndex, pendingStepIndex and the confirmation
\* are unchanged, also over several edits in a row.
C24_EditFrame ==
  [][last'.op = "handleChange" =>
       LET id == last'.id
           raw == last'.raw
       IN  /\ Answer(formData', id) =
                (IF raw.t = "string" THEN Str(Trim(raw.s)) ELSE raw)
           /\ id \notin ErrorIds(errors')
           /\ \A other \in (DOMAIN formData \cup DOMAIN formData') \ {id} :
                Answer(formData', other) = Answer(formData, other)
           /\ ErrorIds(errors') = ErrorIds(errors) \ {id}
           /\ \A other \in ErrorIds(errors') : errors'[other] = errors[other]
           /\ stepIndex' = stepIndex
           /\ pendingStepIndex' = pendingStepIndex
           /\ showUnsavedModal' = showUnsavedModal
           /\ phase' = phase]_vars

\* detail carried an error; the edit of hours left it there
C24_Witness ==
  /\ last.op = "handleChange"
  /\ last.id = "hours"
  /\ "detail" \in ErrorIds(errors)
  /\ "hours" \in DOMAIN errors
  /\ "hours" \notin ErrorIds(errors)
  /\ Answer(formData, "hours") = Str(s6plus)

====
